---- MODULE Spec2Model ----
(***************************************************************************)
(* Model of the AI-Background-Remover upload gateway.                      *)
(*                                                                         *)
(* The Node server (express + multer + axios) creates its two storage      *)
(* directories, starts listening, and serves POST /upload: multer stores   *)
(* every uploaded image under uploads/ with a fresh random filename, then  *)
(* the async handler walks req.files one by one, posts each file to the    *)
(* background-removal backend, writes the answer to processed/, deletes    *)
(* the temporary file and finally answers with the list of written paths.  *)
(* Any exception leaves the loop through the single try/catch and answers  *)
(* with status 500.                                                        *)
(*                                                                         *)
(* JavaScript runs a handler without interruption between two awaits, so   *)
(* every action below is one such run: from the arrival of an event to the *)
(* next await (or to the end of the handler).                              *)
(***************************************************************************)
EXTENDS Integers, Sequences, FiniteSets, TLC

\* ------------------------------------------------------------------ bounds

\* Number of POST /upload requests a behaviour contains (they may overlap).
MaxRequests == 2
\* Number of images uploaded in a behaviour, over all requests.
MaxUploads == 3

\* Number of FileReaders the page starts in a behaviour, over all selections.
MaxReads == 2

Reqs == 1..MaxRequests

\* Original (client side) file names; two uploads may carry the same one.
OriginalNames == {"a.png", "b.png"}

\* ------------------------------------------------------- quality parameters

QualityKeys ==
    {"object_type", "trimap_prob_threshold", "trimap_dilation",
     "trimap_erosion_iters", "feather_radius", "alpha_threshold"}

\* The query string the browser client builds from its six controls
\* (URLSearchParams, one append per control).  The values are whatever the
\* controls hold; nothing on the way to the server restricts them.
UploadQuery(ot, thr, dil, ero, fea, alp) ==
    [object_type |-> ot, trimap_prob_threshold |-> thr, trimap_dilation |-> dil,
     trimap_erosion_iters |-> ero, feather_radius |-> fea, alpha_threshold |-> alp]

\* Queries a request may carry: the client's "auto" preset and two
\* out-of-range submissions (a threshold of 999, an alpha threshold of -5).
QualityConfigs ==
    { UploadQuery("hairs-like", 231, 30, 5, 0, 0),
      UploadQuery("object", 999, 14, 2, 0, 0),
      UploadQuery("hairs-like", 231, 30, 5, 0, -5) }

\* ------------------------------------------------------------------- state

VARIABLES
    startup,    \* position of the start-up script
    dirs,       \* directories that exist in the working directory
    mkdirs,     \* directories the start-up script created (history)
    req,        \* per request: the handler's locals and its position
    uploads,    \* temporary files present under uploads/
    processed,  \* the output store: path -> bytes written there
    calls,      \* every inference call ever issued (history)
    inflight,   \* inference calls issued and not yet answered
    nextName,   \* source of multer's fresh random filenames
    writes,     \* every writeFileSync that succeeded (history)
    unlinks,    \* temporary path -> number of unlinkSync calls on it (history)
    \* the browser client (script.js)
    uploadedFiles,  \* let uploadedFiles: the files of the latest selection
    gallery,        \* the <img> elements of #gallery, in document order
    readers,        \* FileReaders started and not yet loaded
    reads,          \* number of FileReaders started so far (history)
    buttons,        \* the disabled flag of the three buttons
    fetches,        \* the /upload requests started and not yet settled
    info,           \* the /info request and the #runtime-info text
    presetSelect,   \* value of the preset <select>
    controls        \* values of the six quality controls

serverVars == <<startup, dirs, mkdirs, req, uploads, processed, calls, inflight,
                nextName, writes, unlinks>>

galleryVars == <<uploadedFiles, gallery, readers, reads, buttons, fetches, info>>

presetVars == <<presetSelect, controls>>

browserVars == <<galleryVars, presetVars>>

vars == <<serverVars, browserVars>>

NoResponse == [status |-> 0, kind |-> "none", processedImages |-> <<>>]

IdleRequest ==
    [pc |-> "idle", files |-> <<>>, query |-> UploadQuery("", 0, 0, 0, 0, 0),
     idx |-> 0, processedImages |-> <<>>, outcomes |-> <<>>, res |-> NoResponse]

\* ----------------------------------------------------------------- helpers

\* multer({dest: 'uploads/'}): the stored file gets a fresh random name
\* (16 random bytes in hex); the n-th name drawn is modelled as the n-th
\* value of a sequence without repetition.
MulterFilename(n) == ToString(n)

\* file.path of a stored upload.
FilePath(file) == "uploads/" \o file.filename

\* A slip that names the output after the client's file name.
processedImagePathByOriginalName(file) == "processed/" \o file.originalname \o ".png"

\* `processed/${file.filename}.png`
processedImagePath(file) == "processed/" \o file.filename \o ".png"

\* The multipart form posted to the backend: one field, the file stream.
InferenceForm(file, query) == [file |-> FilePath(file)]

\* response.data of a successful inference call for the file.
ResponseData(file) == "nobg:" \o file.filename

fsExistsSync(d) == d \in dirs

\* A slip that posts all remaining files at once (a map over req.files).
ItemsToIssueAllAtOnce(files, idx) == (idx + 1)..Len(files)

\* The for-await loop issues the call of the next file only; idx files are
\* already done.
ItemsToIssue(files, idx) == IF idx < Len(files) THEN {idx + 1} ELSE {}

Call(r, i, rq) == [req |-> r, item |-> i, form |-> InferenceForm(rq.files[i], rq.query)]

\* -------------------------------------------------------------- start-up

\* A slip that drops the existence test and always creates the directory.
NeedsMkdirAlways(d) == TRUE

\* The guard of both start-up blocks: if (!fs.existsSync(d)).
NeedsMkdir(d) == ~fsExistsSync(d)

\* if (!fs.existsSync(d)) fs.mkdirSync(d);  fs.mkdirSync throws EEXIST on an
\* existing directory, and an exception at module top level ends the process
\* before app.listen is reached.
EnsureDir(d, then) ==
    /\ IF NeedsMkdir(d)
       THEN IF d \in dirs
            THEN /\ UNCHANGED <<dirs, mkdirs>>
                 /\ startup' = "crashed"
            ELSE /\ dirs' = dirs \cup {d}
                 /\ mkdirs' = mkdirs \cup {d}
                 /\ startup' = then
       ELSE /\ UNCHANGED <<dirs, mkdirs>>
            /\ startup' = then
    /\ UNCHANGED <<req, uploads, processed, calls, inflight, nextName, writes, unlinks,
                   browserVars>>

\* const upload = multer({ dest: 'uploads/' }): multer's disk storage creates
\* its destination directory when it is constructed (mkdirp, which accepts an
\* existing directory).
CreateMulter ==
    /\ startup = "multer"
    /\ dirs' = dirs \cup {"uploads"}
    /\ startup' = "ensure_uploads"
    /\ UNCHANGED <<mkdirs, req, uploads, processed, calls, inflight, nextName,
                   writes, unlinks, browserVars>>

EnsureUploads ==
    /\ startup = "ensure_uploads"
    /\ EnsureDir("uploads", "ensure_processed")

EnsureProcessed ==
    /\ startup = "ensure_processed"
    /\ EnsureDir("processed", "listen")

\* app.listen(PORT, ...): from here on requests are accepted.
Listen ==
    /\ startup = "listen"
    /\ startup' = "listening"
    /\ UNCHANGED <<dirs, mkdirs, req, uploads, processed, calls, inflight, nextName,
                   writes, unlinks, browserVars>>

\* ------------------------------------------------------------ POST /upload

\* res.json({ processedImages })
JsonResponse(images) == [status |-> 200, kind |-> "json", processedImages |-> images]

\* res.status(500).send('Error processing images')
ErrorResponse == [status |-> 500, kind |-> "text", processedImages |-> <<>>]

\* The handler runs on from the top of the for-loop with `rq` as its locals
\* and `fl` as the calls still in flight: either it posts the next file and
\* suspends at the await, or the loop is over and it answers with the list.
ContinueLoop(r, rq, fl) ==
    LET next == ItemsToIssue(rq.files, rq.idx) IN
    IF next # {}
    THEN /\ req' = [req EXCEPT ![r] = [rq EXCEPT !.pc = "await"]]
         /\ calls' = calls \cup {Call(r, i, rq) : i \in next}
         /\ inflight' = fl \cup {<<r, i>> : i \in next}
    ELSE /\ req' = [req EXCEPT ![r] =
                      [rq EXCEPT !.pc = "responded",
                                 !.res = JsonResponse(rq.processedImages)]]
         /\ calls' = calls
         /\ inflight' = fl

\* catch (error) { res.status(500).send(...) }: the loop is left for good.
Catch(r, rq, fl) ==
    /\ req' = [req EXCEPT ![r] = [rq EXCEPT !.pc = "responded", !.res = ErrorResponse]]
    /\ calls' = calls
    /\ inflight' = fl

\* A request arrives: multer stores its files under uploads/ with fresh
\* names, then the handler starts and runs to its first await.  Requests are
\* numbered in their order of arrival.
Receive(r, names, query) ==
    /\ startup = "listening"
    /\ req[r].pc = "idle"
    /\ r > 1 => req[r - 1].pc # "idle"
    /\ nextName + Len(names) - 1 <= MaxUploads
    /\ LET k == Len(names)
           files == [i \in 1..k |->
                       [filename |-> MulterFilename(nextName + i - 1),
                        originalname |-> names[i]]]
           rq == [IdleRequest EXCEPT !.files = files, !.query = query,
                                     !.outcomes = [i \in 1..k |-> "pending"]]
       IN /\ nextName' = nextName + k
          /\ uploads' = uploads \cup {FilePath(files[i]) : i \in 1..k}
          /\ ContinueLoop(r, rq, inflight)
    /\ UNCHANGED <<startup, dirs, mkdirs, processed, writes, unlinks, browserVars>>

\* The backend answers the awaited call with the processed image.  The
\* handler resumes: writeFileSync, push, unlinkSync, next iteration.
\* writeFileSync may throw (the store refuses the write).
BackendAnswers(r, writeOk) ==
    /\ req[r].pc = "await"
    /\ LET i == req[r].idx + 1
           file == req[r].files[i]
           out == processedImagePath(file)
           fl == inflight \ {<<r, i>>}
       IN /\ <<r, i>> \in inflight
          /\ IF writeOk
             THEN /\ processed' = (out :> ResponseData(file)) @@ processed
                  /\ writes' = writes \cup
                        {[path |-> out, req |-> r, upload |-> file.filename,
                          originalname |-> file.originalname,
                          data |-> ResponseData(file)]}
                  /\ uploads' = uploads \ {FilePath(file)}
                  /\ unlinks' = (FilePath(file) :>
                                   (IF FilePath(file) \in DOMAIN unlinks
                                    THEN unlinks[FilePath(file)] + 1 ELSE 1)) @@ unlinks
                  /\ ContinueLoop(r, [req[r] EXCEPT
                                        !.idx = i,
                                        !.processedImages = Append(@, out),
                                        !.outcomes[i] = "ok"], fl)
             ELSE /\ UNCHANGED <<processed, writes, uploads, unlinks>>
                  /\ Catch(r, [req[r] EXCEPT !.outcomes[i] = "write_failed"], fl)
    /\ UNCHANGED <<startup, dirs, mkdirs, nextName, browserVars>>

\* The awaited call fails (connection error or non-2xx status): axios
\* rejects, the await throws into the catch block.
BackendFails(r) ==
    /\ req[r].pc = "await"
    /\ LET i == req[r].idx + 1 IN
          /\ <<r, i>> \in inflight
          /\ Catch(r, [req[r] EXCEPT !.outcomes[i] = "inference_failed"],
                   inflight \ {<<r, i>>})
    /\ UNCHANGED <<startup, dirs, mkdirs, uploads, processed, nextName, writes, unlinks,
                   browserVars>>

\* The backend never answers the awaited call.  axios.post is given no
\* timeout, so its promise never settles and the handler stays suspended.
BackendNeverAnswers(r) ==
    /\ req[r].pc = "await"
    /\ req' = [req EXCEPT ![r].pc = "hung"]
    /\ UNCHANGED <<startup, dirs, mkdirs, uploads, processed, calls, inflight, nextName,
                   writes, unlinks, browserVars>>

\* Any step of the handler of request r once it has started.
HandlerStep(r) ==
    \/ \E writeOk \in BOOLEAN : BackendAnswers(r, writeOk)
    \/ BackendFails(r)

\* ------------------------------------------------------ the browser client

\* ---- gallery, selection and upload

\* The lists a file input or a drop can deliver: distinct files, in any order.
FileLists ==
    {fl \in UNION {[1..k -> OriginalNames] : k \in 0..Cardinality(OriginalNames)} :
        \A i, j \in 1..Len(fl) : i # j => fl[i] # fl[j]}

\* What parseInt gives for a string that is no number.
NaN == -1

\* img.dataset.index = index: the data attribute holds String(index).
DatasetIndex(index) == ToString(index)

\* parseInt(img.dataset.index) for the attribute of a thumbnail; an img
\* without the attribute gives parseInt(undefined), which is NaN.
parseInt(str) ==
    IF \E n \in 0..Cardinality(OriginalNames) : ToString(n) = str
    THEN CHOOSE n \in 0..Cardinality(OriginalNames) : ToString(n) = str
    ELSE NaN

\* array[index] of a JavaScript array, indices from 0; formData.append turns
\* the undefined of a missing element into the string "undefined".
ArrayAt(array, index) ==
    IF index \in 0..(Len(array) - 1) THEN array[index + 1] ELSE "undefined"

\* The img of a thumbnail created by reader.onload in displayImages.  stale
\* tells that the reader was started for a selection that is no longer the
\* latest one (history).
Thumb(index, file, stale) ==
    [cls |-> "thumb", datasetIndex |-> DatasetIndex(index), selected |-> FALSE,
     file |-> file, stale |-> stale]

\* The img created by displayProcessedResults for one result item: no data
\* attribute, no click listener.
ResultImg(ok) ==
    [cls |-> IF ok THEN "processed" ELSE "error", datasetIndex |-> "undefined",
     selected |-> FALSE, file |-> "", stale |-> FALSE]

\* function setLoading(loading)
setLoading(loading) ==
    [process |-> loading, selectAll |-> loading, download |-> loading]

\* What the parsed body of /upload can be for a request of n images: no
\* results member, a results member that is no list, or a list of at most n
\* items, each ok or not.
Payloads(n) ==
    {[kind |-> "unparsable", results |-> <<>>],
     [kind |-> "no_results", results |-> <<>>],
     [kind |-> "results_not_a_list", results |-> <<>>]}
        \cup {[kind |-> "results", results |-> rs] :
                 rs \in UNION {[1..k -> BOOLEAN] : k \in 0..n}}

GalleryInit ==
    /\ uploadedFiles = <<>>
    /\ gallery = <<>>
    /\ readers = {}
    /\ reads = 0
    /\ buttons = setLoading(FALSE)
    /\ fetches = <<>>
    /\ info = [pc |-> "fetch", runtimeInfo |-> "", failed |-> FALSE, uncaught |-> FALSE]

\* function displayImages(files): the gallery is emptied and one FileReader
\* per file is started; the readers of earlier selections keep running.
displayImages(files) ==
    /\ gallery' = <<>>
    /\ readers' = {[rd EXCEPT !.stale = TRUE] : rd \in readers} \cup
          {[id |-> reads + i, index |-> i - 1, file |-> files[i], stale |-> FALSE] :
              i \in 1..Len(files)}
    /\ reads' = reads + Len(files)

\* fileInput 'change'
FileInputChange(files) ==
    /\ reads + Len(files) <= MaxReads
    /\ uploadedFiles' = files
    /\ displayImages(files)
    /\ UNCHANGED <<buttons, fetches, info, serverVars, presetVars>>

\* gallery 'drop': an empty list of images is ignored.
GalleryDrop(files) ==
    /\ reads + Len(files) <= MaxReads
    /\ Len(files) # 0
    /\ uploadedFiles' = files
    /\ displayImages(files)
    /\ UNCHANGED <<buttons, fetches, info, serverVars, presetVars>>

\* reader.onload: the thumbnail is appended, with the index and the file the
\* reader was started for.
ReaderOnload(rd) ==
    /\ rd \in readers
    /\ readers' = readers \ {rd}
    /\ gallery' = Append(gallery, Thumb(rd.index, rd.file, rd.stale))
    /\ UNCHANGED <<uploadedFiles, reads, buttons, fetches, info,
                   serverVars, presetVars>>

\* click on a thumbnail: img.classList.toggle('selected')
ThumbClick(k) ==
    /\ k \in 1..Len(gallery)
    /\ gallery[k].cls = "thumb"
    /\ gallery' = [gallery EXCEPT ![k].selected = ~@]
    /\ UNCHANGED <<uploadedFiles, readers, reads, buttons, fetches, info,
                   serverVars, presetVars>>

\* selectAllButton 'click' (a disabled button gets no click)
SelectAllClick ==
    /\ ~buttons.selectAll
    /\ LET allSelected == \A k \in 1..Len(gallery) : gallery[k].selected IN
          gallery' = [k \in 1..Len(gallery) |->
                         [gallery[k] EXCEPT !.selected = ~allSelected]]
    /\ UNCHANGED <<uploadedFiles, readers, reads, buttons, fetches, info,
                   serverVars, presetVars>>

\* The selected imgs in document order: gallery.querySelectorAll('img.selected')
SelectedImgs == SelectSeq(gallery, LAMBDA img : img.selected)

\* selectedIndexes.forEach(index => formData.append('images', uploadedFiles[index]))
FormDataImages ==
    LET selectedIndexes ==
            [k \in 1..Len(SelectedImgs) |-> parseInt(SelectedImgs[k].datasetIndex)]
    IN [k \in 1..Len(selectedIndexes) |-> ArrayAt(uploadedFiles, selectedIndexes[k])]

\* processButton 'click' up to the await of fetch.  With nothing selected the
\* handler alerts and returns, which changes nothing.
ProcessClick ==
    /\ ~buttons.process
    /\ Len(SelectedImgs) # 0
    /\ buttons' = setLoading(TRUE)
    /\ fetches' = Append(fetches,
                     [pc |-> "fetch", images |-> FormDataImages, params |-> controls,
                      ok |-> FALSE])
    /\ UNCHANGED <<uploadedFiles, gallery, readers, reads, info,
                   serverVars, presetVars>>

\* A slip that re-enables the buttons at the end of the try block only.
LoadingAfterSuccessOnly(threw) == threw

\* finally { setLoading(false) }: the argument of setLoading once the request
\* has settled, whether the try block threw or not.
LoadingAfterSettle(threw) == FALSE

\* The handler of request n leaves its try/catch/finally and is gone.
Settle(n, threw) ==
    /\ fetches' = [k \in 1..(Len(fetches) - 1) |->
                      IF k < n THEN fetches[k] ELSE fetches[k + 1]]
    /\ buttons' = setLoading(LoadingAfterSettle(threw))

\* await fetch(...) settles: a network error rejects, otherwise the response
\* is there (ok or not) and the handler awaits response.json().
FetchSettles(n, result) ==
    /\ n \in 1..Len(fetches)
    /\ fetches[n].pc = "fetch"
    /\ IF result = "network_error"
       THEN Settle(n, TRUE)
       ELSE /\ fetches' = [fetches EXCEPT ![n].pc = "json", ![n].ok = (result = "ok")]
            /\ UNCHANGED buttons
    /\ UNCHANGED <<uploadedFiles, gallery, readers, reads, info,
                   serverVars, presetVars>>

\* await response.json().catch(() => null) settles; then the status test and
\* displayProcessedResults(payload.results || []).
JsonSettles(n, payload) ==
    /\ n \in 1..Len(fetches)
    /\ fetches[n].pc = "json"
    /\ IF ~fetches[n].ok \/ payload.kind = "unparsable"
       THEN /\ Settle(n, TRUE)
            /\ UNCHANGED gallery
       ELSE IF payload.kind = "results_not_a_list"
       THEN \* gallery.innerHTML = '' runs, then results.forEach throws
            /\ Settle(n, TRUE)
            /\ gallery' = <<>>
       ELSE /\ Settle(n, FALSE)
            /\ gallery' = [k \in 1..Len(payload.results) |-> ResultImg(payload.results[k])]
    /\ UNCHANGED <<uploadedFiles, readers, reads, info, serverVars, presetVars>>

\* ---- runtime info

InfoText == "Device: ..."

\* A slip that leaves the failure of /info uncaught.
InfoUncaught(inf) == [inf EXCEPT !.pc = "done", !.failed = TRUE, !.uncaught = TRUE]

\* catch (e) { runtimeInfo.textContent = 'Backend info unavailable' }
InfoCatch(inf) ==
    [inf EXCEPT !.pc = "done", !.failed = TRUE,
                !.runtimeInfo = "Backend info unavailable"]

\* loadInfo: await fetch('/info') settles.
InfoFetchSettles(result) ==
    /\ info.pc = "fetch"
    /\ info' = IF result = "ok" THEN [info EXCEPT !.pc = "json"] ELSE InfoCatch(info)
    /\ UNCHANGED <<uploadedFiles, gallery, readers, reads, buttons, fetches,
                   serverVars, presetVars>>

\* loadInfo: await r.json() settles.
InfoJsonSettles(parsed) ==
    /\ info.pc = "json"
    /\ info' = IF parsed
               THEN [info EXCEPT !.pc = "done", !.runtimeInfo = InfoText]
               ELSE InfoCatch(info)
    /\ UNCHANGED <<uploadedFiles, gallery, readers, reads, buttons, fetches,
                   serverVars, presetVars>>

\* ---- presets and quality controls

ControlKeys == QualityKeys

\* const presets = {...}.  feather_radius is kept in tenths (1.5 is 15), every
\* other number as written.
presets ==
    [auto |-> [object_type |-> "hairs-like", trimap_prob_threshold |-> 231,
               trimap_dilation |-> 30, trimap_erosion_iters |-> 5,
               feather_radius |-> 0, alpha_threshold |-> 0],
     portrait |-> [object_type |-> "hairs-like", trimap_prob_threshold |-> 230,
                   trimap_dilation |-> 24, trimap_erosion_iters |-> 4,
                   feather_radius |-> 15, alpha_threshold |-> 0],
     product |-> [object_type |-> "object", trimap_prob_threshold |-> 240,
                  trimap_dilation |-> 18, trimap_erosion_iters |-> 3,
                  feather_radius |-> 5, alpha_threshold |-> 10],
     illustration |-> [object_type |-> "object", trimap_prob_threshold |-> 245,
                       trimap_dilation |-> 14, trimap_erosion_iters |-> 2,
                       feather_radius |-> 0, alpha_threshold |-> 0]]

\* The options of the preset <select>: the four presets and 'custom'.
PresetOptions == DOMAIN presets \cup {"custom"}

\* String(n) of an integer.
String(n) == ToString(n)

\* String(x) of a number given in tenths: 15 is "1.5", 0 is "0".
StringOfTenths(t) ==
    IF t % 10 = 0 THEN ToString(t \div 10)
    ELSE ToString(t \div 10) \o "." \o ToString(t % 10)

\* The body of the presetSelect change listener after `if (!p) return`: the
\* values the six controls are given.
ApplyPreset(p) ==
    [object_type |-> p.object_type,
     trimap_prob_threshold |-> String(p.trimap_prob_threshold),
     trimap_dilation |-> String(p.trimap_dilation),
     trimap_erosion_iters |-> String(p.trimap_erosion_iters),
     feather_radius |-> StringOfTenths(p.feather_radius),
     alpha_threshold |-> String(p.alpha_threshold)]

\* Values the user can give a control: those of the presets and one more.
ControlValues(k) ==
    {ApplyPreset(presets[n])[k] : n \in DOMAIN presets}
        \cup (IF k = "object_type" THEN {} ELSE {"7"})

\* function maybeSetCustomPreset()
maybeSetCustomPreset(value) == IF value # "custom" THEN "custom" ELSE value

\* The page as loaded: no preset chosen yet.
PresetInit ==
    /\ presetSelect = "custom"
    /\ controls = ApplyPreset(presets["auto"])

\* presetSelect 'change': the user picks an option of the select.
PresetChange(option) ==
    /\ presetSelect' = option
    /\ controls' = IF option \in DOMAIN presets
                   THEN ApplyPreset(presets[option])
                   ELSE controls
    /\ UNCHANGED <<serverVars, galleryVars>>

\* trimapThresholdInput 'input': only the label is updated.
InputTrimapThreshold(v) ==
    /\ controls' = [controls EXCEPT !.trimap_prob_threshold = v]
    /\ UNCHANGED <<presetSelect, serverVars, galleryVars>>

\* trimapDilationInput 'input': only the label is updated.
InputTrimapDilation(v) ==
    /\ controls' = [controls EXCEPT !.trimap_dilation = v]
    /\ UNCHANGED <<presetSelect, serverVars, galleryVars>>

\* trimapErosionInput 'input'
InputTrimapErosion(v) ==
    /\ controls' = [controls EXCEPT !.trimap_erosion_iters = v]
    /\ presetSelect' = maybeSetCustomPreset(presetSelect)
    /\ UNCHANGED <<serverVars, galleryVars>>

\* featherRadiusInput 'input'
InputFeatherRadius(v) ==
    /\ controls' = [controls EXCEPT !.feather_radius = v]
    /\ presetSelect' = maybeSetCustomPreset(presetSelect)
    /\ UNCHANGED <<serverVars, galleryVars>>

\* alphaThresholdInput 'input'
InputAlphaThreshold(v) ==
    /\ controls' = [controls EXCEPT !.alpha_threshold = v]
    /\ presetSelect' = maybeSetCustomPreset(presetSelect)
    /\ UNCHANGED <<serverVars, galleryVars>>

\* objectTypeSelect 'change'
ChangeObjectType(v) ==
    /\ controls' = [controls EXCEPT !.object_type = v]
    /\ presetSelect' = maybeSetCustomPreset(presetSelect)
    /\ UNCHANGED <<serverVars, galleryVars>>

\* --------------------------------------------------------------- the system

FileNameLists == UNION {[1..k -> OriginalNames] : k \in 0..MaxUploads}

ServerInit ==
    /\ startup = "multer"
    /\ dirs \in SUBSET {"uploads", "processed"}
    /\ mkdirs = {}
    /\ req = [r \in Reqs |-> IdleRequest]
    /\ uploads = {}
    /\ processed = <<>>
    /\ calls = {}
    /\ inflight = {}
    /\ nextName = 1
    /\ writes = {}
    /\ unlinks = <<>>

Next ==
    \/ CreateMulter
    \/ EnsureUploads
    \/ EnsureProcessed
    \/ Listen
    \/ \E r \in Reqs, names \in FileNameLists, query \in QualityConfigs :
          Receive(r, names, query)
    \/ \E r \in Reqs : HandlerStep(r)
    \/ \E r \in Reqs : BackendNeverAnswers(r)

\* The server alone: the page is loaded and left untouched.
Init == ServerInit /\ GalleryInit /\ PresetInit

Spec == Init /\ [][Next]_vars

\* The server before it is started, for the specifications of the page.
ServerOff == ServerInit /\ dirs = {}

\* The preset selector and the six controls of the page.
PresetNext ==
    \/ \E option \in PresetOptions : PresetChange(option)
    \/ \E v \in ControlValues("trimap_prob_threshold") : InputTrimapThreshold(v)
    \/ \E v \in ControlValues("trimap_dilation") : InputTrimapDilation(v)
    \/ \E v \in ControlValues("trimap_erosion_iters") : InputTrimapErosion(v)
    \/ \E v \in ControlValues("feather_radius") : InputFeatherRadius(v)
    \/ \E v \in ControlValues("alpha_threshold") : InputAlphaThreshold(v)
    \/ \E v \in ControlValues("object_type") : ChangeObjectType(v)

PresetInitial == ServerOff /\ GalleryInit /\ PresetInit

PresetSpec == PresetInitial /\ [][PresetNext]_vars

\* The gallery, the upload and the runtime info of the page.
GalleryNext ==
    \/ \E files \in FileLists : FileInputChange(files)
    \/ \E files \in FileLists : GalleryDrop(files)
    \/ \E rd \in readers : ReaderOnload(rd)
    \/ \E k \in 1..Len(gallery) : ThumbClick(k)
    \/ SelectAllClick
    \/ ProcessClick
    \/ \E n \in 1..Len(fetches), result \in {"ok", "not_ok", "network_error"} :
          FetchSettles(n, result)
    \/ \E n \in 1..Len(fetches) : \E payload \in Payloads(Len(fetches[n].images)) :
          JsonSettles(n, payload)
    \/ \E result \in {"ok", "not_ok", "network_error"} : InfoFetchSettles(result)
    \/ \E parsed \in BOOLEAN : InfoJsonSettles(parsed)

GalleryInitial == ServerOff /\ GalleryInit /\ PresetInit

GallerySpec == GalleryInitial /\ [][GalleryNext]_vars

\* ------------------------------------------------------------------ claims

Responded(r) == req[r].pc = "responded"
Accepted(r) == req[r].pc # "idle"
Items(r) == 1..Len(req[r].files)
Issued(r, i) == \E c \in calls : c.req = r /\ c.item = i
InFlightOf(r) == {c \in inflight : c[1] = r}
Failed(r, i) == req[r].outcomes[i] \in {"inference_failed", "write_failed"}
Reported(r, i) ==
    \E n \in 1..Len(req[r].res.processedImages) :
        req[r].res.processedImages[n] = processedImagePath(req[r].files[i])

\* The ranges the specification gives for the six quality parameters.
ValidQualityConfig(q) ==
    /\ q.object_type \in {"hairs-like", "object"}
    /\ q.trimap_prob_threshold >= 0 /\ q.trimap_prob_threshold <= 255
    /\ q.alpha_threshold >= 0 /\ q.alpha_threshold <= 255
    /\ q.trimap_dilation >= 0
    /\ q.trimap_erosion_iters >= 0
    /\ q.feather_radius >= 0

\* C1: the response to a batch of K images holds exactly K outcome entries,
\* entry i describing the i-th submitted image, whatever the per-item backend
\* outcomes were.
C1_OneOutcomePerItem ==
    \A r \in Reqs : Responded(r) =>
        /\ Len(req[r].res.processedImages) = Len(req[r].files)
        /\ \A i \in Items(r) :
              req[r].res.processedImages[i] = processedImagePath(req[r].files[i])

\* C2: when item i of a batch fails, the batch is not aborted: every other
\* item is still sent to the backend and reaches an outcome of its own.
C2_FailureIsolated ==
    \A r \in Reqs : Responded(r) =>
        \A i \in Items(r) : Failed(r, i) =>
            \A j \in Items(r) \ {i} :
                /\ Issued(r, j)
                /\ req[r].outcomes[j] # "pending"

\* C3: once a request is answered, the temporary file of each of its items
\* has been deleted exactly once, and no temporary file is ever deleted twice.
C3_TempFileReleasedOnce ==
    /\ \A p \in DOMAIN unlinks : unlinks[p] <= 1
    /\ \A r \in Reqs : Responded(r) =>
          \A i \in Items(r) :
              /\ FilePath(req[r].files[i]) \notin uploads
              /\ FilePath(req[r].files[i]) \in DOMAIN unlinks
              /\ unlinks[FilePath(req[r].files[i])] = 1

\* C4: a batch submitted with an out-of-range quality parameter is rejected
\* with a validation error and causes no inference call.
C4_InvalidConfigRejected ==
    \A r \in Reqs : (Accepted(r) /\ ~ValidQualityConfig(req[r].query)) =>
        /\ \A c \in calls : c.req # r
        /\ Responded(r) => req[r].res.status \notin {0, 200}

\* C5: the handler never waits forever on the backend: when the backend
\* never answers the awaited call, the handler can still take a step (a
\* timeout) that leads to the response.
C5_NeverWaitsForever ==
    \A r \in Reqs : req[r].pc = "hung" => ENABLED HandlerStep(r)

\* C6: for every concurrency bound C >= 1 and every batch of K > C items, at
\* most C inference calls of the batch are issued and not yet answered.
C6_BoundedInFlight ==
    \A r \in Reqs : \A C \in 1..MaxUploads :
        Len(req[r].files) > C => Cardinality(InFlightOf(r)) <= C

C6_Witness ==
    \E r \in Reqs :
        /\ Len(req[r].files) > 1
        /\ <<r, 2>> \in inflight
        /\ req[r].outcomes[1] = "ok"

\* C7: every item whose inference call succeeded (and whose output was
\* written) is reported to the caller with its output location, and the
\* output is in the store under that location when the response is sent.
C7_SuccessReportedAndStored ==
    \A r \in Reqs : Responded(r) =>
        \A i \in Items(r) : req[r].outcomes[i] = "ok" =>
            /\ req[r].res.status = 200
            /\ Reported(r, i)
            /\ processedImagePath(req[r].files[i]) \in DOMAIN processed

\* C8: every inference call of a batch carries the six quality parameters
\* the caller submitted with the batch.
C8_CallsCarryQualityConfig ==
    \A c \in calls : \A k \in QualityKeys :
        /\ k \in DOMAIN c.form
        /\ c.form[k] = req[c.req].query[k]

\* C9: two distinct successfully processed uploads are never written to the
\* same output name, and what was written for an upload stays in the store
\* under its name (no later write replaces it).
C9_UniqueOutputNames ==
    /\ \A w1, w2 \in writes : w1.upload # w2.upload => w1.path # w2.path
    /\ \A w \in writes : w.path \in DOMAIN processed /\ processed[w.path] = w.data

C9_Witness ==
    \E w1, w2, w3 \in writes :
        /\ w1.upload # w2.upload /\ w1.req = w2.req
        /\ w1.originalname = w2.originalname
        /\ w3.req # w1.req
        /\ w3.originalname = w1.originalname

\* C14: when a request is answered, every output file written to the store
\* during the request is reported in the response, also on the failure path.
C14_WrittenOutputsReported ==
    \A r \in Reqs : Responded(r) =>
        \A w \in writes : w.req = r =>
            \E n \in 1..Len(req[r].res.processedImages) :
                req[r].res.processedImages[n] = w.path

\* C10: no request is accepted before the start-up step has made sure that
\* uploads and processed exist, and the step neither fails nor creates
\* anything when a location exists already.
C10_StartupBeforeRequests ==
    /\ startup # "crashed"
    /\ \A r \in Reqs : Accepted(r) =>
          /\ startup = "listening"
          /\ {"uploads", "processed"} \subseteq dirs
    /\ startup \in {"listen", "listening"} => {"uploads", "processed"} \subseteq dirs

C10_Witness ==
    /\ startup = "listening"
    /\ mkdirs = {}
    /\ \E r \in Reqs : Accepted(r)

\* C15: whenever the preset selector shows a named preset, the six controls
\* hold exactly that preset's values (editing any control switches the
\* selector to 'custom').
C15_NamedPresetMatchesControls ==
    presetSelect \in DOMAIN presets => controls = ApplyPreset(presets[presetSelect])

\* ---- claims about the page

ThumbIndexes == {k \in 1..Len(gallery) : gallery[k].cls = "thumb"}

\* C11: a failed /info request ends as the text 'Backend info unavailable',
\* never as an uncaught error, and in every state of the /info request a
\* selection can be made and a selection can be submitted.
C11_InfoFailureDegrades ==
    /\ info.failed =>
          /\ info.pc = "done"
          /\ info.runtimeInfo = "Backend info unavailable"
          /\ ~info.uncaught
    /\ ~info.failed => info.runtimeInfo \in {"", InfoText}
    /\ reads < MaxReads =>
          \E files \in FileLists : Len(files) = 1 /\ ENABLED FileInputChange(files)
    /\ (Len(SelectedImgs) # 0 /\ ~buttons.process) => ENABLED ProcessClick

C11_Witness ==
    /\ info.failed
    /\ Len(fetches) = 1
    /\ readers # {}

\* C12: every thumbnail of the gallery with index i shows the file now stored
\* at uploadedFiles[i], and no thumbnail of a read started for an earlier
\* selection has an index that points into the newer file list.
C12_ThumbnailsMatchUploadedFiles ==
    \A k \in ThumbIndexes :
        /\ ArrayAt(uploadedFiles, parseInt(gallery[k].datasetIndex)) = gallery[k].file
        /\ gallery[k].stale =>
              parseInt(gallery[k].datasetIndex) \notin 0..(Len(uploadedFiles) - 1)

\* C13: every 'images' entry a Process click appends to the upload request
\* is a file of the uploadedFiles list of that moment.
C13_SubmittedEntriesAreUploadedFiles ==
    [][Len(fetches') > Len(fetches) =>
          \A k \in 1..Len(fetches'[Len(fetches')].images) :
              \E i \in 1..Len(uploadedFiles) :
                  fetches'[Len(fetches')].images[k] = uploadedFiles[i]]_vars

\* C16: at most one /upload request is in flight, and each of the three
\* buttons is disabled exactly while one is.
C16_DisabledWhileInFlight ==
    /\ Len(fetches) <= 1
    /\ buttons.process = (Len(fetches) = 1)
    /\ buttons.selectAll = (Len(fetches) = 1)
    /\ buttons.download = (Len(fetches) = 1)

C16_Witness ==
    /\ fetches = <<>>
    /\ ~buttons.process /\ ~buttons.selectAll /\ ~buttons.download
    /\ \E k \in 1..Len(gallery) : gallery[k].cls = "error"

====
